---------------------------- MODULE Spec2Model ----------------------------
(***************************************************************************)
(* codemetrics: the aggregation functions of core.py over a log table     *)
(* (get_co_changes, get_mass_change_sets) and the Subversion log          *)
(* collector of svn.py (to_bool, _extract, process_entry,                 *)
(* process_log_entries).                                                   *)
(*                                                                         *)
(* A pandas DataFrame is a sequence of records (rows); a column selection *)
(* is a projection of every row.  A Python str whose characters matter    *)
(* (to_bool's argument, a path text) is a sequence of one-character       *)
(* strings.                                                                *)
(***************************************************************************)
EXTENDS Integers, Sequences, FiniteSets, TLC

VARIABLES
    log,          \* core.py: the log argument (a DataFrame)
    min_changes,  \* core.py: get_mass_change_sets' threshold argument
    agg_pc,       \* "build" while the log is put together, "done" after the call
    result,       \* get_co_changes' returned frame (sorted)
    massive,      \* get_mass_change_sets' returned frame
    bool_str,     \* svn.py: to_bool's argument
    bool_res,     \* to_bool's outcome: a returned bool or a raised exception
    bool_pc,      \* "call" before the call of to_bool, "done" after it
    assertions,   \* whether the interpreter executes assert statements (no -O)
    elem,         \* process_entry: elem, the Element ET.fromstring returned
    entry_pc,     \* process_entry: "start", "loop", "done" or "raised"
    rev,          \* process_entry: rev
    author,       \* process_entry: author
    date,         \* process_entry: date
    message,      \* process_entry: message
    path_idx,     \* process_entry: position of the for loop in elem.findall("*/path")
    entries,      \* process_entry: the LogEntry values yielded so far
    entry_err,    \* process_entry: the exception that left the generator, or None
    xml,          \* process_log_entries: xml, the lines of svn log --xml -v
    pos,          \* process_log_entries: position of the for loop in xml
    log_entry,    \* process_log_entries: log_entry, the lines buffered so far
    calls,        \* the arguments of the calls of process_entry so far, in order
    emitted,      \* process_log_entries: the LogEntry values yielded so far
    scan_pc,      \* process_log_entries: "loop", "done" or "raised"
    scan_err      \* process_log_entries: the exception that left the generator

aggVars == <<log, min_changes, agg_pc, result, massive>>
boolVars == <<bool_str, bool_res, bool_pc>>
entryVars == <<elem, entry_pc, rev, author, date, message, path_idx, entries,
               entry_err>>

scanVars == <<xml, pos, log_entry, calls, emitted, scan_pc, scan_err>>

vars == <<aggVars, boolVars, assertions, entryVars, scanVars>>

-----------------------------------------------------------------------------
(* Python values of svn.py.  A str is the sequence of its characters. *)

Str(s) == [type |-> "str", chars |-> s]
None == [type |-> "NoneType"]
\* numpy.nan, a float
NaN == [type |-> "float", nan |-> TRUE]

Return(v) == [kind |-> "return", value |-> v]
Raise(e, v) == [kind |-> "raise", exc |-> e, arg |-> v]

-----------------------------------------------------------------------------
(* The values of the variables of a part of the program that is not running. *)

AggIdle ==
    /\ log = <<>>
    /\ min_changes = 0
    /\ agg_pc = "idle"
    /\ result = <<>>
    /\ massive = <<>>

BoolIdle ==
    /\ bool_str = None
    /\ bool_res = None
    /\ bool_pc = "idle"

EntryIdle ==
    /\ elem = None
    /\ entry_pc = "idle"
    /\ rev = None
    /\ author = None
    /\ date = None
    /\ message = None
    /\ path_idx = 0
    /\ entries = <<>>
    /\ entry_err = None

ScanIdle ==
    /\ xml = <<>>
    /\ pos = 0
    /\ log_entry = <<>>
    /\ calls = <<>>
    /\ emitted = <<>>
    /\ scan_pc = "idle"
    /\ scan_err = None

-----------------------------------------------------------------------------
(* Bounds of the model. *)

\* rows appended to a log
MaxRows == 3
\* revisions 1..MaxRev
MaxRev == 3

Revisions == 1 .. MaxRev
Paths == {"a", "b", "c"}

\* The order pandas sorts the path strings in (groupby sorts its keys).
PathRank == [p \in Paths |-> CASE p = "a" -> 1 [] p = "b" -> 2 [] OTHER -> 3]

-----------------------------------------------------------------------------
(* DataFrame primitives, as core.py uses them. *)

\* df[cols]: every row restricted to the columns cols.
Project(df, cols) == [i \in 1 .. Len(df) |-> [c \in cols |-> df[i][c]]]

\* A frame without de-duplication (DropDuplicates with the call left out).
KeepDuplicates(df) == df

\* DataFrame.drop_duplicates(): the first occurrence of every row, in order.
DropDuplicates(df) ==
    LET f[i \in 0 .. Len(df)] ==
            IF i = 0 THEN <<>>
            ELSE IF \E j \in 1 .. (i - 1) : df[j] = df[i]
                 THEN f[i - 1]
                 ELSE Append(f[i - 1], df[i])
    IN  f[Len(df)]

\* Pairs of the self-merge restricted to later rows only (a combination
\* instead of a product).
HalfMerge(df) ==
    LET Match(i) == SelectSeq(SubSeq(df, i, Len(df)),
                              LAMBDA r : r.revision = df[i].revision)
        Pairs(i) == [k \in 1 .. Len(Match(i)) |->
                        [revision |-> df[i].revision,
                         path |-> df[i].path,
                         dependency |-> Match(i)[k].path]]
        f[i \in 0 .. Len(df)] ==
            IF i = 0 THEN <<>> ELSE f[i - 1] \o Pairs(i)
    IN  f[Len(df)]

\* pd.merge(df, df, on='revision') with path_x renamed path and path_y
\* renamed dependency: every ordered pair of rows that share a revision.
SelfMerge(df) ==
    LET Match(i) == SelectSeq(df, LAMBDA r : r.revision = df[i].revision)
        Pairs(i) == [k \in 1 .. Len(Match(i)) |->
                        [revision |-> df[i].revision,
                         path |-> df[i].path,
                         dependency |-> Match(i)[k].path]]
        f[i \in 0 .. Len(df)] ==
            IF i = 0 THEN <<>> ELSE f[i - 1] \o Pairs(i)
    IN  f[Len(df)]

KeyLess(k1, k2) ==
    \/ PathRank[k1[1]] < PathRank[k2[1]]
    \/ k1[1] = k2[1] /\ PathRank[k1[2]] < PathRank[k2[2]]

RECURSIVE SortedKeys(_)
SortedKeys(S) ==
    IF S = {} THEN <<>>
    ELSE LET m == CHOOSE x \in S : \A y \in S \ {x} : KeyLess(x, y)
         IN  <<m>> \o SortedKeys(S \ {m})

\* groupby(['path', 'dependency']).count().reset_index(): one row per key,
\* keys sorted, the remaining column (revision) counted.
GroupByPairCount(m) ==
    LET keys == SortedKeys({<<m[i].path, m[i].dependency>> : i \in 1 .. Len(m)})
    IN  [k \in 1 .. Len(keys) |->
            [path |-> keys[k][1],
             dependency |-> keys[k][2],
             revision |-> Cardinality({i \in 1 .. Len(m) :
                              <<m[i].path, m[i].dependency>> = keys[k]})]]

\* pd.merge(self rows [path, revision], cross rows, on='path') with
\* revision_x renamed changes and revision_y renamed cochanges, and the
\* coupling column cochanges / changes (kept as the fraction num / den).
JoinCounts(sj) ==
    LET selfs == SelectSeq(sj, LAMBDA r : r.path = r.dependency)
        cross == SelectSeq(sj, LAMBDA r : r.path # r.dependency)
        Match(i) == SelectSeq(cross, LAMBDA r : r.path = selfs[i].path)
        Rows(i) == [k \in 1 .. Len(Match(i)) |->
                       [path |-> selfs[i].path,
                        dependency |-> Match(i)[k].dependency,
                        changes |-> selfs[i].revision,
                        cochanges |-> Match(i)[k].revision,
                        coupling |-> [num |-> Match(i)[k].revision,
                                      den |-> selfs[i].revision]]]
        f[i \in 0 .. Len(selfs)] ==
            IF i = 0 THEN <<>> ELSE f[i - 1] \o Rows(i)
    IN  f[Len(selfs)]

\* x > y for two coupling values (fractions with positive denominators).
CouplingGreater(x, y) == x.num * y.den > y.num * x.den

\* The frame left in merge order (SortValues with the sort left out).
Unsorted(df) == df

\* sort_values(by='coupling', ascending=False).  The order of rows with equal
\* coupling is whatever the sort leaves; here they keep their merge order.
SortValues(df) ==
    LET Insert(s, r) ==
            LET n == Cardinality({i \in 1 .. Len(s) :
                                    ~CouplingGreater(r.coupling, s[i].coupling)})
            IN  SubSeq(s, 1, n) \o <<r>> \o SubSeq(s, n + 1, Len(s))
        f[i \in 0 .. Len(df)] ==
            IF i = 0 THEN <<>> ELSE Insert(f[i - 1], df[i])
    IN  f[Len(df)]

\* get_co_changes(log) with by = 'path', on = 'revision'.
get_co_changes(lg) ==
    LET df == DropDuplicates(Project(lg, {"revision", "path"}))
        sj == GroupByPairCount(SelfMerge(df))
    IN  SortValues(JoinCounts(sj))

\* log[['revision', 'path']].groupby('revision').count() with path renamed
\* path_count, after reset_index(): one row per revision, revisions sorted,
\* the rows of the revision counted (count() counts the non-null cells of the
\* path column; every row of a log has a path).
GroupByRevisionCount(df) ==
    LET revs == {df[i].revision : i \in 1 .. Len(df)}
        Sorted[S \in SUBSET revs] ==
            IF S = {} THEN <<>>
            ELSE LET m == CHOOSE x \in S : \A y \in S : x <= y
                 IN  <<m>> \o Sorted[S \ {m}]
        keys == Sorted[revs]
    IN  [k \in 1 .. Len(keys) |->
            [revision |-> keys[k],
             path_count |-> Cardinality({i \in 1 .. Len(df) :
                                            df[i].revision = keys[k]})]]

\* pd.merge(left, right): an inner join on the one column the two frames
\* share, revision.
MergeOnRevision(left, right) ==
    LET Match(i) == SelectSeq(right, LAMBDA r : r.revision = left[i].revision)
        Rows(i) == [k \in 1 .. Len(Match(i)) |->
                       [revision |-> left[i].revision,
                        path_count |-> left[i].path_count,
                        message |-> Match(i)[k].message,
                        author |-> Match(i)[k].author]]
        f[i \in 0 .. Len(left)] ==
            IF i = 0 THEN <<>> ELSE f[i - 1] \o Rows(i)
    IN  f[Len(left)]

\* get_mass_change_sets(log, min_changes).
get_mass_change_sets(lg, k) ==
    LET by_rev == GroupByRevisionCount(Project(lg, {"revision", "path"}))
    IN  MergeOnRevision(
            SelectSeq(by_rev, LAMBDA r : r.path_count > k),
            DropDuplicates(Project(lg, {"revision", "message", "author"})))

-----------------------------------------------------------------------------
(* Strings of svn.py. *)

\* The characters the model's strings are made of.
Chars ==
    {"t", "T", "r", "R", "u", "U", "e", "E", "f", "F", "a", "A", "l", "L",
     "s", "S", "1", "0", "n", "o", " ", "/", "b", "c"}

\* str.lower() of one character.
LowerChar ==
    [c \in Chars |->
        CASE c = "T" -> "t" [] c = "R" -> "r" [] c = "U" -> "u"
          [] c = "E" -> "e" [] c = "F" -> "f" [] c = "A" -> "a"
          [] c = "L" -> "l" [] c = "S" -> "s" [] OTHER -> c]

\* The string unchanged (Lower with the call of lower() left out).
NotLowered(s) == s

\* str.lower().
Lower(s) == [i \in 1 .. Len(s) |-> LowerChar[s[i]]]

\* The tuples to_bool tests membership in.
TrueStrings == {<<"t", "r", "u", "e">>, <<"1">>, <<"t">>}
FalseStrings == {<<"f", "a", "l", "s", "e">>, <<"0">>, <<"f">>, <<>>}

\* to_bool(bool_str).  A value that is no str (numpy.nan) has no lower().
to_bool(v) ==
    IF v.type # "str" THEN Raise("AttributeError", v)
    ELSE LET bool_str_lc == Lower(v.chars)
         IN  IF bool_str_lc \in TrueStrings THEN Return(TRUE)
             ELSE IF bool_str_lc \in FalseStrings THEN Return(FALSE)
             ELSE Raise("ValueError", v)

-----------------------------------------------------------------------------
(* process_entry of _SvnLogCollector.                                      *)
(*                                                                         *)
(* An Element is [attrib, sub, paths]: attrib maps the names of the        *)
(* attributes the tag carries to their values, sub maps the names of the   *)
(* author, date and msg sub-elements that are present to their text, and   *)
(* paths is elem.findall("*/path") in document order.  A path element is   *)
(* [text, attrib]; the text of an element with no text is None.            *)

\* The relative_url the collector is constructed with, and rel_url_slash.
RelativeUrl == <<"/", "t">>
rel_url_slash == RelativeUrl \o <<"/">>

\* The attributes process_entry reads from a path element, in its order.
PathAttributes ==
    <<"text-mods", "kind", "action", "prop-mods", "copyfrom-rev",
      "copyfrom-path">>

RECURSIVE Replace(_, _, _)
\* str.replace(old, new): every occurrence of old, left to right.
Replace(s, old, new) ==
    IF Len(s) < Len(old) THEN s
    ELSE IF SubSeq(s, 1, Len(old)) = old
         THEN new \o Replace(SubSeq(s, Len(old) + 1, Len(s)), old, new)
         ELSE <<Head(s)>> \o Replace(Tail(s), old, new)

\* to_date(datestr): the parsed date with tzinfo replaced by UTC.
to_date(datestr) == [type |-> "datetime", parsed |-> datestr.chars, tzinfo |-> "UTC"]

\* _extract(elem, sub, log_entry, on_error): the text of the first sub-element
\* named sub, None when there is none.  elem.find of a plain tag name raises
\* nothing, so on_error is never consulted.
extract(el, sub, on_error) ==
    IF sub \in DOMAIN el.sub THEN el.sub[sub] ELSE None

\* Lines 121-126: rev, author, date and message of the entry.
EntryFields(el) ==
    IF "revision" \notin DOMAIN el.attrib THEN Raise("KeyError", Str(<<>>))
    ELSE LET msg == extract(el, "msg", "")
         IN  Return([rev |-> el.attrib["revision"],
                     author |-> extract(el, "author", ""),
                     date |-> extract(el, "date", "raise"),
                     message |-> IF msg # None
                                 THEN Str(Replace(msg.chars, <<"\n">>, <<" ">>))
                                 ELSE msg])

\* Lines 129-141: other[sub] for every attribute, numpy.nan for a missing one.
OtherAttributes(path_elem) ==
    [sub \in {PathAttributes[i] : i \in 1 .. Len(PathAttributes)} |->
        IF sub \in DOMAIN path_elem.attrib THEN path_elem.attrib[sub] ELSE NaN]

\* The f-string f"{err} processing rev {rev}".
Diagnostic(err, r) ==
    [type |-> "str", format |-> "{err} processing rev {rev}", err |-> err,
     rev |-> r]

\* Lines 142-149: the path of the entry.  With assert statements executed a
\* text of None fails the assert, and AssertionError is not among the
\* exceptions caught; without them None.replace raises the AttributeError
\* that is caught and turned into the diagnostic path.
EntryPath(path_elem, r, asserts) ==
    IF path_elem.text = None
    THEN IF asserts THEN Raise("AssertionError", None)
         ELSE Return(Diagnostic(
                  "'NoneType' object has no attribute 'replace'", r))
    ELSE Return(Str(Replace(path_elem.text.chars, rel_url_slash, <<>>)))

\* Lines 129-166: one iteration of the loop over the path elements: the
\* yielded LogEntry, or the exception that leaves the generator.  The record
\* has the fields the call of scm.LogEntry at lines 151-165 names (scm.py
\* declares LogEntry without copyfromrev and copyfrompath).
PathIteration(f, path_elem, asserts) ==
    LET other == OtherAttributes(path_elem)
        path == EntryPath(path_elem, f.rev, asserts)
        textmods == to_bool(other["text-mods"])
        propmods == to_bool(other["prop-mods"])
    IN  IF path.kind = "raise" THEN path
        ELSE IF f.date = None
        THEN IF asserts THEN Raise("AssertionError", f.date)
             ELSE Raise("TypeError", f.date)
        ELSE IF textmods.kind = "raise" THEN textmods
        ELSE IF propmods.kind = "raise" THEN propmods
        ELSE Return([revision |-> f.rev,
                     author |-> f.author,
                     date |-> to_date(f.date),
                     path |-> path.value,
                     message |-> f.message,
                     textmods |-> textmods.value,
                     kind |-> other["kind"],
                     action |-> other["action"],
                     propmods |-> propmods.value,
                     copyfromrev |-> other["copyfrom-rev"],
                     copyfrompath |-> other["copyfrom-path"],
                     added |-> NaN,
                     removed |-> NaN])

-----------------------------------------------------------------------------
(* The logs the aggregation functions are applied to. *)

Messages == {"m1", "m2"}
Authors == {"u1", "u2"}
\* thresholds 0..MaxThreshold
MaxThreshold == 2

RevPath(r, p) == [revision |-> r, path |-> p]

\* The spec's scenario: revision 1 touches a, b, c; 2 touches a, b; 3 touches c.
ScenarioLog ==
    <<RevPath(1, "a"), RevPath(1, "b"), RevPath(1, "c"),
      RevPath(2, "a"), RevPath(2, "b"), RevPath(3, "c")>>

\* The same scenario with the message and author of each revision.
ScenarioFullLog ==
    [i \in 1 .. Len(ScenarioLog) |->
        [revision |-> ScenarioLog[i].revision,
         path |-> ScenarioLog[i].path,
         message |-> IF ScenarioLog[i].revision = 2 THEN "m2" ELSE "m1",
         author |-> IF ScenarioLog[i].revision = 3 THEN "u2" ELSE "u1"]]

\* Rows appended to the log so far: a log is empty at first or starts as the
\* scenario.
Appended(lg, base) ==
    IF Len(lg) >= Len(base) /\ SubSeq(lg, 1, Len(base)) = base
    THEN Len(lg) - Len(base)
    ELSE Len(lg)

InitCoChanges ==
    /\ log \in {<<>>, ScenarioLog}
    /\ min_changes = 0
    /\ agg_pc = "build"
    /\ result = <<>>
    /\ massive = <<>>
    /\ BoolIdle
    /\ assertions = TRUE
    /\ EntryIdle
    /\ ScanIdle

\* One more (revision, path) row in the log a caller hands to get_co_changes.
AppendRevPath ==
    /\ agg_pc = "build"
    /\ Appended(log, ScenarioLog) < MaxRows
    /\ \E r \in Revisions, p \in Paths : log' = Append(log, RevPath(r, p))
    /\ UNCHANGED <<min_changes, agg_pc, result, massive>>
    /\ UNCHANGED <<boolVars, assertions, entryVars, scanVars>>

\* The call get_co_changes(log).
CallCoChanges ==
    /\ agg_pc = "build"
    /\ result' = get_co_changes(log)
    /\ agg_pc' = "done"
    /\ UNCHANGED <<log, min_changes, massive>>
    /\ UNCHANGED <<boolVars, assertions, entryVars, scanVars>>

NextCoChanges == AppendRevPath \/ CallCoChanges

SpecCoChanges == InitCoChanges /\ [][NextCoChanges]_vars

InitMass ==
    /\ log \in {<<>>, ScenarioFullLog}
    /\ min_changes = 0
    /\ agg_pc = "build"
    /\ result = <<>>
    /\ massive = <<>>
    /\ BoolIdle
    /\ assertions = TRUE
    /\ EntryIdle
    /\ ScanIdle

\* One more row in the log a caller hands to get_mass_change_sets.
AppendRow ==
    /\ agg_pc = "build"
    /\ Appended(log, ScenarioFullLog) < MaxRows
    /\ \E r \in Revisions, p \in Paths, m \in Messages, a \in Authors :
          log' = Append(log, [revision |-> r, path |-> p,
                              message |-> m, author |-> a])
    /\ UNCHANGED <<min_changes, agg_pc, result, massive>>
    /\ UNCHANGED <<boolVars, assertions, entryVars, scanVars>>

\* The call get_mass_change_sets(log, k).
CallMassChangeSets ==
    /\ agg_pc = "build"
    /\ \E k \in 0 .. MaxThreshold :
          /\ min_changes' = k
          /\ massive' = get_mass_change_sets(log, k)
    /\ agg_pc' = "done"
    /\ UNCHANGED <<log, result>>
    /\ UNCHANGED <<boolVars, assertions, entryVars, scanVars>>

NextMass == AppendRow \/ CallMassChangeSets

SpecMass == InitMass /\ [][NextMass]_vars

-----------------------------------------------------------------------------
(* Properties of get_co_changes. *)

\* The distinct revisions in which path p appears in the log.
RevsOf(p) ==
    {r \in Revisions : \E i \in 1 .. Len(log) :
                          log[i].revision = r /\ log[i].path = p}

\* The rows of the co-changes report for the ordered pair (p, s).
RowsFor(p, s) ==
    {i \in 1 .. Len(result) : result[i].path = p /\ result[i].dependency = s}

\* C1: get_co_changes(log) holds, for each ordered pair (P, S) of distinct
\* paths that share a revision, exactly one row, whose changes is the number
\* of distinct revisions of P, whose cochanges is the number of distinct
\* revisions of both P and S, and whose coupling is cochanges / changes;
\* duplicate (revision, path) rows of the log change none of this.
C1_CoChangeCounts ==
    agg_pc = "done" =>
        \A p \in Paths, s \in Paths :
            (p # s /\ RevsOf(p) \cap RevsOf(s) # {}) =>
                /\ Cardinality(RowsFor(p, s)) = 1
                /\ \A i \in RowsFor(p, s) :
                      /\ result[i].changes = Cardinality(RevsOf(p))
                      /\ result[i].cochanges =
                             Cardinality(RevsOf(p) \cap RevsOf(s))
                      /\ result[i].coupling.num * result[i].changes =
                             result[i].cochanges * result[i].coupling.den
                      /\ result[i].coupling.den > 0

\* C1's case: the scenario log with its first row repeated, reported with
\* (a, b): changes 2, cochanges 2, coupling 1.0 and (a, c): changes 2,
\* cochanges 1, coupling 0.5.
C1_Witness ==
    /\ agg_pc = "done"
    /\ Len(log) = Len(ScenarioLog) + 1
    /\ SubSeq(log, 1, Len(ScenarioLog)) = ScenarioLog
    /\ log[Len(log)] = log[1]
    /\ \E i \in RowsFor("a", "b") :
          /\ result[i].changes = 2
          /\ result[i].cochanges = 2
          /\ result[i].coupling.num = result[i].coupling.den
    /\ \E i \in RowsFor("a", "c") :
          /\ result[i].changes = 2
          /\ result[i].cochanges = 1
          /\ 2 * result[i].coupling.num = result[i].coupling.den

\* C2: get_co_changes emits no row whose path equals its dependency, every
\* row has cochanges <= changes, and the rows come in non-increasing order of
\* coupling.
C2_NoSelfBoundedSorted ==
    agg_pc = "done" =>
        /\ \A i \in 1 .. Len(result) :
              /\ result[i].path # result[i].dependency
              /\ result[i].cochanges <= result[i].changes
        /\ \A i \in 1 .. Len(result), j \in 1 .. Len(result) :
              i < j => result[i].coupling.num * result[j].coupling.den
                           >= result[j].coupling.num * result[i].coupling.den

\* C2's case: a report whose merge order is not its coupling order (a row of
\* smaller coupling for a path that sorts before one of larger coupling).
C2_Witness ==
    /\ agg_pc = "done"
    /\ \E i \in 1 .. Len(result), j \in 1 .. Len(result) :
          /\ i < j
          /\ PathRank[result[j].path] < PathRank[result[i].path]
          /\ CouplingGreater(result[i].coupling, result[j].coupling)
          /\ result[j].cochanges < result[j].changes

\* C3: if the report holds a row (A, B) it holds a row (B, A) with the same
\* cochanges, whose changes is the number of distinct revisions of B.
C3_SymmetricExistence ==
    agg_pc = "done" =>
        \A i \in 1 .. Len(result) :
            \E j \in 1 .. Len(result) :
                /\ result[j].path = result[i].dependency
                /\ result[j].dependency = result[i].path
                /\ result[j].cochanges = result[i].cochanges
                /\ result[j].changes = Cardinality(RevsOf(result[i].dependency))

\* C3's case: rows (A, B) and (B, A) whose changes differ.
C3_Witness ==
    /\ agg_pc = "done"
    /\ \E i \in 1 .. Len(result), j \in 1 .. Len(result) :
          /\ result[j].path = result[i].dependency
          /\ result[j].dependency = result[i].path
          /\ result[j].changes # result[i].changes

-----------------------------------------------------------------------------
(* Properties of get_mass_change_sets. *)

\* The distinct paths revision r touches in the log.
PathsOf(r) ==
    {log[i].path : i \in {j \in 1 .. Len(log) : log[j].revision = r}}

\* The rows of the mass change sets for revision r.
MassRowsFor(r) == {i \in 1 .. Len(massive) : massive[i].revision = r}

\* C4: get_mass_change_sets(log, k) returns a revision if and only if the
\* number of distinct paths the revision touches is strictly greater than k.
C4_DistinctPathsOverThreshold ==
    agg_pc = "done" =>
        \A r \in Revisions :
            MassRowsFor(r) # {} <=> Cardinality(PathsOf(r)) > min_changes

\* C5: get_mass_change_sets returns exactly one row for every revision that
\* touches more than k distinct paths, whatever message and author values the
\* rows of the revision carry.
C5_OneRowPerRevision ==
    agg_pc = "done" =>
        \A r \in Revisions :
            Cardinality(PathsOf(r)) > min_changes =>
                Cardinality(MassRowsFor(r)) = 1

-----------------------------------------------------------------------------
(* to_bool applied to a string. *)

\* characters of the strings tried exhaustively
MaxStrLen == 2

RECURSIVE CaseVariants(_)
\* Every spelling of the lower-case word w in upper and lower case.
CaseVariants(w) ==
    IF w = <<>> THEN {<<>>}
    ELSE {<<c>> \o v : c \in {d \in Chars : LowerChar[d] = Head(w)},
                       v \in CaseVariants(Tail(w))}

\* The arguments tried: every string of up to MaxStrLen characters, and every
\* spelling of a few longer words.
BoolWords ==
    {<<"t", "r", "u", "e">>, <<"f", "a", "l", "s", "e">>, <<"t", "r", "u">>,
     <<"t", "r", "u", "e", " ">>, <<"f", "a", "l", "s">>, <<"n", "o", "n", "e">>}

BoolInputs ==
    UNION {[1 .. n -> Chars] : n \in 0 .. MaxStrLen}
        \cup UNION {CaseVariants(w) : w \in BoolWords}

InitBool ==
    /\ bool_str \in {Str(s) : s \in BoolInputs}
    /\ bool_res = None
    /\ bool_pc = "call"
    /\ AggIdle
    /\ assertions = TRUE
    /\ EntryIdle
    /\ ScanIdle

\* The call to_bool(bool_str).
CallToBool ==
    /\ bool_pc = "call"
    /\ bool_res' = to_bool(bool_str)
    /\ bool_pc' = "done"
    /\ UNCHANGED <<bool_str, aggVars, assertions, entryVars, scanVars>>

NextBool == CallToBool

SpecBool == InitBool /\ [][NextBool]_vars

\* The upper-case letter of a lower-case character (itself when it has none).
UpperChar ==
    [c \in Chars |->
        CASE c = "t" -> "T" [] c = "r" -> "R" [] c = "u" -> "U"
          [] c = "e" -> "E" [] c = "f" -> "F" [] c = "a" -> "A"
          [] c = "l" -> "L" [] c = "s" -> "S" [] OTHER -> c]

\* s and the lower-case word w are equal when case is ignored.
EqualIgnoringCase(s, w) ==
    /\ Len(s) = Len(w)
    /\ \A i \in 1 .. Len(w) : s[i] = w[i] \/ s[i] = UpperChar[w[i]]

\* C6: to_bool returns true for a string that is "true", "1" or "t" when case
\* is ignored, false for one that is "false", "0", "f" or "", and raises a
\* ValueError naming the string for every other string.
C6_ToBoolStrict ==
    bool_pc = "done" =>
        LET s == bool_str.chars
            isTrue == \E w \in TrueStrings : EqualIgnoringCase(s, w)
            isFalse == \E w \in FalseStrings : EqualIgnoringCase(s, w)
        IN  /\ isTrue => bool_res = Return(TRUE)
            /\ isFalse => bool_res = Return(FALSE)
            /\ ~isTrue /\ ~isFalse =>
                  /\ bool_res.kind = "raise"
                  /\ bool_res.exc = "ValueError"
                  /\ bool_res.arg = bool_str

\* C6's case: "no" raises, naming "no".
C6_Witness ==
    /\ bool_pc = "done"
    /\ bool_str = Str(<<"n", "o">>)
    /\ bool_res = Raise("ValueError", Str(<<"n", "o">>))

-----------------------------------------------------------------------------
(* process_entry applied to one Element. *)

\* path elements of an entry
MaxPaths == 2

S_true == <<"t", "r", "u", "e">>
S_false == <<"f", "a", "l", "s", "e">>

\* A path element's attributes as svn log --xml -v writes them for a copy.
CopyAttrib ==
    [sub \in {PathAttributes[i] : i \in 1 .. Len(PathAttributes)} |->
        CASE sub = "text-mods" -> Str(S_true)
          [] sub = "prop-mods" -> Str(S_false)
          [] sub = "kind" -> Str(<<"f">>)
          [] sub = "action" -> Str(<<"A">>)
          [] sub = "copyfrom-rev" -> Str(<<"1">>)
          [] OTHER -> Str(<<"/", "t", "/", "c">>)]

Restrict(f, D) == [x \in D |-> f[x]]

\* The attribute maps tried: all six attributes, any one of them missing, the
\* two copyfrom attributes missing (a path that is no copy), and a text-mods
\* value that is no boolean.
Attribs ==
    {Restrict(CopyAttrib, DOMAIN CopyAttrib \ {sub}) : sub \in DOMAIN CopyAttrib}
        \cup {CopyAttrib,
              Restrict(CopyAttrib,
                       DOMAIN CopyAttrib \ {"copyfrom-rev", "copyfrom-path"}),
              [CopyAttrib EXCEPT !["text-mods"] = Str(<<"n", "o">>)]}

\* The path texts tried: none, one under the relative url, one outside it.
Texts == {None, Str(<<"/", "t", "/", "a">>), Str(<<"b">>)}

\* Path texts that hold rel_url_slash past their start: one under the
\* relative url (a directory named like it further down), one outside it.
InnerPrefixTexts ==
    {Str(<<"/", "t", "/", "a", "/", "t", "/", "b">>),
     Str(<<"a", "/", "t", "/", "b">>)}

\* The path elements tried: every text with every attribute map, and the
\* texts with an inner rel_url_slash with the attributes of a path that is
\* no copy.
PathElems ==
    {[text |-> t, attrib |-> a] : t \in Texts, a \in Attribs}
        \cup {[text |-> t,
               attrib |-> Restrict(CopyAttrib,
                   DOMAIN CopyAttrib \ {"copyfrom-rev", "copyfrom-path"})] :
                 t \in InnerPrefixTexts}

PathLists == UNION {[1 .. n -> PathElems] : n \in 0 .. MaxPaths}

SubElems ==
    {Restrict([sub \in {"author", "date", "msg"} |->
                  CASE sub = "author" -> Str(<<"a", "l">>)
                    [] sub = "date" -> Str(<<"2", "0", "1", "8">>)
                    [] OTHER -> Str(<<"f", "\n", "b">>)], D) :
        D \in SUBSET {"author", "date", "msg"}}

\* The Elements tried: a logentry with its revision, any of author, date and
\* msg, and up to MaxPaths path elements; and a tag with nothing at all.
Elements ==
    {[attrib |-> [a \in {"revision"} |-> Str(<<"1">>)], sub |-> c, paths |-> ps] :
        c \in SubElems, ps \in PathLists}
        \cup {[attrib |-> <<>>, sub |-> <<>>, paths |-> <<>>]}

InitEntry ==
    /\ assertions \in BOOLEAN
    /\ elem \in Elements
    /\ entry_pc = "start"
    /\ rev = None
    /\ author = None
    /\ date = None
    /\ message = None
    /\ path_idx = 0
    /\ entries = <<>>
    /\ entry_err = None
    /\ AggIdle
    /\ BoolIdle
    /\ ScanIdle

\* Lines 120-127: up to the head of the for loop.
EntryStart ==
    /\ entry_pc = "start"
    /\ LET f == EntryFields(elem)
       IN  IF f.kind = "raise"
           THEN /\ entry_pc' = "raised"
                /\ entry_err' = f
                /\ UNCHANGED <<rev, author, date, message, path_idx>>
           ELSE /\ entry_pc' = "loop"
                /\ rev' = f.value.rev
                /\ author' = f.value.author
                /\ date' = f.value.date
                /\ message' = f.value.message
                /\ path_idx' = 1
                /\ UNCHANGED entry_err
    /\ UNCHANGED <<elem, entries, assertions, aggVars, boolVars, scanVars>>

\* Lines 128-166: one iteration of the for loop, to its yield or its raise.
EntryPathStep ==
    /\ entry_pc = "loop"
    /\ path_idx <= Len(elem.paths)
    /\ LET r == PathIteration([rev |-> rev, author |-> author, date |-> date,
                               message |-> message],
                              elem.paths[path_idx], assertions)
       IN  IF r.kind = "raise"
           THEN /\ entry_pc' = "raised"
                /\ entry_err' = r
                /\ UNCHANGED <<entries, path_idx>>
           ELSE /\ entries' = Append(entries, r.value)
                /\ path_idx' = path_idx + 1
                /\ UNCHANGED <<entry_pc, entry_err>>
    /\ UNCHANGED <<elem, rev, author, date, message, assertions, aggVars,
                   boolVars, scanVars>>

\* The for loop is exhausted and the generator returns.
EntryReturn ==
    /\ entry_pc = "loop"
    /\ path_idx > Len(elem.paths)
    /\ entry_pc' = "done"
    /\ UNCHANGED <<elem, rev, author, date, message, path_idx, entries,
                   entry_err, assertions, aggVars, boolVars, scanVars>>

NextEntry == EntryStart \/ EntryPathStep \/ EntryReturn

SpecEntry == InitEntry /\ [][NextEntry]_vars

-----------------------------------------------------------------------------
(* Properties of process_entry. *)

\* process_entry has ended: the generator returned or an exception left it.
EntryEnded == entry_pc \in {"done", "raised"}

\* The entry has the sub-element named sub.
HasSub(sub) == sub \in DOMAIN elem.sub

\* Path element pe has both boolean attributes, with values that are booleans.
BooleansGiven(pe) ==
    /\ {"text-mods", "prop-mods"} \subseteq DOMAIN pe.attrib
    /\ to_bool(pe.attrib["text-mods"]).kind = "return"
    /\ to_bool(pe.attrib["prop-mods"]).kind = "return"

\* The LogEntry field that holds the path attribute sub.
FieldOf(e, sub) ==
    CASE sub = "text-mods" -> e.textmods
      [] sub = "prop-mods" -> e.propmods
      [] sub = "kind" -> e.kind
      [] sub = "action" -> e.action
      [] sub = "copyfrom-rev" -> e.copyfromrev
      [] OTHER -> e.copyfrompath

\* C7: an entry without a date sub-element, with any number of path elements
\* (zero included), ends in a propagated error with no LogEntry emitted, and
\* no LogEntry ever carries a date the entry did not give; an entry with a
\* date but without author or msg yields None for that field and still emits
\* the rows of its path elements.
C7_MissingDateIsHardFailure ==
    /\ (EntryEnded /\ "revision" \in DOMAIN elem.attrib /\ ~HasSub("date")) =>
          (entry_pc = "raised" /\ entries = <<>>)
    /\ \A i \in 1 .. Len(entries) :
          HasSub("date") /\ entries[i].date = to_date(elem.sub["date"])
    /\ (EntryEnded /\ "revision" \in DOMAIN elem.attrib /\ HasSub("date")
          /\ \A i \in 1 .. Len(elem.paths) :
                elem.paths[i].text # None /\ BooleansGiven(elem.paths[i])) =>
          /\ entry_pc = "done"
          /\ Len(entries) = Len(elem.paths)
          /\ \A i \in 1 .. Len(entries) :
                /\ ~HasSub("author") => entries[i].author = None
                /\ ~HasSub("msg") => entries[i].message = None

\* C8: a path element whose text cannot be extracted (it has no text) does not
\* abort the revision: its LogEntry carries a diagnostic path with the error
\* text and the revision, and every other path element of the entry still
\* gets its LogEntry, in order.
C8_BadPathTextIsSubstituted ==
    (EntryEnded /\ "revision" \in DOMAIN elem.attrib /\ HasSub("date")
       /\ \A i \in 1 .. Len(elem.paths) : BooleansGiven(elem.paths[i])) =>
        /\ entry_pc = "done"
        /\ Len(entries) = Len(elem.paths)
        /\ \A i \in 1 .. Len(entries) :
              IF elem.paths[i].text = None
              THEN /\ "err" \in DOMAIN entries[i].path
                   /\ entries[i].path.rev = elem.attrib["revision"]
              ELSE entries[i].path =
                       Str(Replace(elem.paths[i].text.chars, rel_url_slash, <<>>))

\* C9: a missing optional attribute of a path element never fails the entry:
\* the path element still gets its LogEntry, whose field for the attribute is
\* the unknown marker (or false, for textmods and propmods).
C9_MissingAttributeIsUnknown ==
    (EntryEnded /\ "revision" \in DOMAIN elem.attrib /\ HasSub("date")
       /\ \A i \in 1 .. Len(elem.paths) :
             /\ elem.paths[i].text # None
             /\ \A sub \in {"text-mods", "prop-mods"} \cap DOMAIN elem.paths[i].attrib :
                   to_bool(elem.paths[i].attrib[sub]).kind = "return") =>
        /\ entry_pc = "done"
        /\ Len(entries) = Len(elem.paths)
        /\ \A i \in 1 .. Len(entries) :
              \A sub \in DOMAIN CopyAttrib \ DOMAIN elem.paths[i].attrib :
                  FieldOf(entries[i], sub) \in {NaN, FALSE}

\* s begins with prefix.
StartsWith(s, prefix) ==
    Len(s) >= Len(prefix) /\ SubSeq(s, 1, Len(prefix)) = prefix

\* s without prefix at its start; s itself when it does not begin with it.
StripLeadingPrefix(s, prefix) ==
    IF StartsWith(s, prefix) THEN SubSeq(s, Len(prefix) + 1, Len(s)) ELSE s

\* C11: the path of every LogEntry is the raw path text with rel_url_slash
\* stripped from its start only: an occurrence of rel_url_slash elsewhere in
\* the text is left intact, and a text that does not begin with it is emitted
\* unchanged.
C11_OnlyLeadingPrefixStripped ==
    \A i \in 1 .. Len(entries) :
        elem.paths[i].text # None =>
            entries[i].path =
                Str(StripLeadingPrefix(elem.paths[i].text.chars, rel_url_slash))

-----------------------------------------------------------------------------
(* process_log_entries over the lines of svn log --xml -v. *)

\* lines of an input
MaxLines == 5

\* The lines tried.  A buffer is the sequence of the lines appended to it.
OpenLine1 == "<logentry revision='1'>"
OpenLine2 == "<logentry revision='2'>"
CloseLine == "</logentry>"
DateLine == "<date>2018</date>"
PathLine == "<paths><path text-mods='true' kind='f' action='A' prop-mods='false'>/t/a</path></paths>"
LogLine == "<log>"

Lines == {OpenLine1, OpenLine2, CloseLine, DateLine, PathLine, LogLine}

\* line.startswith("<logentry") and line.startswith("</logentry>").
StartsWithOpen(line) == line \in {OpenLine1, OpenLine2}
StartsWithClose(line) == line = CloseLine

\* ET.fromstring(log_entry): the Element of a well-formed fragment, a
\* ParseError for one with an unclosed or mismatched tag (a second <logentry,
\* a <log> inside).
fromstring(frag) ==
    IF /\ Len(frag) >= 2
       /\ StartsWithOpen(frag[1])
       /\ StartsWithClose(frag[Len(frag)])
       /\ \A i \in 2 .. (Len(frag) - 1) : frag[i] \in {DateLine, PathLine}
    THEN Return(
           [attrib |-> [a \in {"revision"} |->
                           IF frag[1] = OpenLine1 THEN Str(<<"1">>)
                           ELSE Str(<<"2">>)],
            sub |-> IF \E i \in 1 .. Len(frag) : frag[i] = DateLine
                    THEN [c \in {"date"} |-> Str(<<"2", "0", "1", "8">>)]
                    ELSE <<>>,
            paths |-> [i \in 1 .. Cardinality({j \in 1 .. Len(frag) :
                                                  frag[j] = PathLine}) |->
                          [text |-> Str(<<"/", "t", "/", "a">>),
                           attrib |-> Restrict(CopyAttrib,
                               {"text-mods", "kind", "action", "prop-mods"})]]])
    ELSE Raise("ParseError", None)

RECURSIVE YieldFrom(_, _, _, _)
\* The for loop of process_entry from path element i on: the entries it
\* yields and the exception that ends it, if any.
YieldFrom(f, paths, i, asserts) ==
    IF i > Len(paths) THEN [entries |-> <<>>, err |-> None]
    ELSE LET r == PathIteration(f, paths[i], asserts)
         IN  IF r.kind = "raise" THEN [entries |-> <<>>, err |-> r]
             ELSE LET rest == YieldFrom(f, paths, i + 1, asserts)
                  IN  [entries |-> <<r.value>> \o rest.entries,
                       err |-> rest.err]

\* process_entry(log_entry), run to its end: everything it yields, and the
\* exception that leaves it, if any.
process_entry(frag, asserts) ==
    LET el == fromstring(frag)
    IN  IF el.kind = "raise" THEN [entries |-> <<>>, err |-> el]
        ELSE LET f == EntryFields(el.value)
             IN  IF f.kind = "raise" THEN [entries |-> <<>>, err |-> f]
                 ELSE YieldFrom(f.value, el.value.paths, 1, asserts)

\* The buffer with every line appended, also while no entry is open
\* (Buffered without the test of lines 175-176).
BufferedAlways(buf, line) == Append(buf, line)

\* The buffer when an open line starts a new one, dropping what was gathered
\* (Buffered with `log_entry = line` in place of `log_entry += line`).
BufferedRestart(buf, line) ==
    IF StartsWithOpen(line) THEN <<line>>
    ELSE IF buf = <<>> THEN buf
    ELSE Append(buf, line)

\* Lines 172-177: log_entry after the line is looked at.
Buffered(buf, line) ==
    IF StartsWithOpen(line) THEN Append(buf, line)
    ELSE IF buf = <<>> THEN buf
    ELSE Append(buf, line)

\* Lines 172-179: the line ends an entry: it is no open line, an entry is
\* being buffered, and the line starts with the close marker.
ClosesEntry(buf, line) ==
    ~StartsWithOpen(line) /\ buf # <<>> /\ StartsWithClose(line)

Inputs == UNION {[1 .. n -> Lines] : n \in 0 .. MaxLines}

InitScan ==
    /\ xml \in Inputs
    /\ assertions \in BOOLEAN
    /\ pos = 1
    /\ log_entry = <<>>
    /\ calls = <<>>
    /\ emitted = <<>>
    /\ scan_pc = "loop"
    /\ scan_err = None
    /\ AggIdle
    /\ BoolIdle
    /\ EntryIdle

\* Lines 171-181: one iteration of the for loop over the lines.  At a close
\* line the buffer goes to process_entry, whose entries are yielded; an
\* exception of process_entry leaves the generator.
ScanLine ==
    /\ scan_pc = "loop"
    /\ pos <= Len(xml)
    /\ LET line == xml[pos]
           buf == Buffered(log_entry, line)
       IN  IF ClosesEntry(log_entry, line)
           THEN LET r == process_entry(buf, assertions)
                IN  /\ calls' = Append(calls, buf)
                    /\ emitted' = emitted \o r.entries
                    /\ IF r.err # None
                       THEN /\ scan_pc' = "raised"
                            /\ scan_err' = r.err
                            /\ log_entry' = buf
                            /\ UNCHANGED pos
                       ELSE /\ log_entry' = <<>>
                            /\ pos' = pos + 1
                            /\ UNCHANGED <<scan_pc, scan_err>>
           ELSE /\ log_entry' = buf
                /\ pos' = pos + 1
                /\ UNCHANGED <<calls, emitted, scan_pc, scan_err>>
    /\ UNCHANGED <<xml, assertions, aggVars, boolVars, entryVars>>

\* The lines are exhausted and the generator returns.
ScanReturn ==
    /\ scan_pc = "loop"
    /\ pos > Len(xml)
    /\ scan_pc' = "done"
    /\ UNCHANGED <<xml, pos, log_entry, calls, emitted, scan_err, assertions,
                   aggVars, boolVars, entryVars>>

NextScan == ScanLine \/ ScanReturn

SpecScan == InitScan /\ [][NextScan]_vars

-----------------------------------------------------------------------------
(* The whole program: any one of its entry points, run on any input. *)

Init == InitCoChanges \/ InitMass \/ InitBool \/ InitEntry \/ InitScan

Next == NextCoChanges \/ NextMass \/ NextBool \/ NextEntry \/ NextScan

Spec == Init /\ [][Next]_vars

-----------------------------------------------------------------------------
(* Properties of process_log_entries. *)

\* Line i opens a run: it starts with the open marker and every earlier open
\* line has a close line between itself and line i.
IsRunStart(i) ==
    /\ StartsWithOpen(xml[i])
    /\ \A k \in 1 .. (i - 1) :
          StartsWithOpen(xml[k]) =>
              \E c \in (k + 1) .. (i - 1) : StartsWithClose(xml[c])

\* The first close line after line i (0 when there is none).
RunEnd(i) ==
    IF \E c \in (i + 1) .. Len(xml) : StartsWithClose(xml[c])
    THEN CHOOSE c \in (i + 1) .. Len(xml) :
            /\ StartsWithClose(xml[c])
            /\ \A d \in (i + 1) .. (c - 1) : ~StartsWithClose(xml[d])
    ELSE 0

\* The open..close line runs of the input, in stream order.
Runs ==
    LET starts == {i \in 1 .. Len(xml) : IsRunStart(i) /\ RunEnd(i) # 0}
        Nth[n \in 1 .. Cardinality(starts)] ==
            CHOOSE i \in starts : Cardinality({j \in starts : j < i}) = n - 1
    IN  [n \in 1 .. Cardinality(starts) |-> SubSeq(xml, Nth[n], RunEnd(Nth[n]))]

\* The runs up to and including the first whose processing raises (all of
\* them when none does).
RunsUntilRaise ==
    LET bad == {n \in 1 .. Len(Runs) :
                   process_entry(Runs[n], assertions).err # None}
    IN  IF bad = {} THEN Runs
        ELSE SubSeq(Runs, 1, CHOOSE n \in bad : \A m \in bad : n <= m)

\* The lines an open entry has gathered before line p: from the run start
\* that no close line follows yet, or nothing when there is no such start.
OpenRun(p) ==
    LET open == {i \in 1 .. (p - 1) :
                    /\ IsRunStart(i)
                    /\ \A c \in (i + 1) .. (p - 1) : ~StartsWithClose(xml[c])}
    IN  IF open = {} THEN <<>>
        ELSE SubSeq(xml, CHOOSE i \in open : TRUE, p - 1)

-----------------------------------------------------------------------------
(* Nested open lines and entries left open. *)

\* The lines process_log_entries has looked at: all before pos, and line pos
\* too when the exception of its fragment ended the scan there.
SeenUpTo == IF scan_pc = "raised" THEN pos ELSE pos - 1

\* The close lines among the lines looked at.
CloseLinesSeen ==
    Cardinality({c \in 1 .. SeenUpTo : StartsWithClose(xml[c])})

\* The lines of the entry that is open just before line p: everything from
\* the first open line after the last close line before p, later open lines
\* included; nothing when no open line follows that close line.
ExpectedBuffer(p) ==
    LET closes == {c \in 1 .. (p - 1) : StartsWithClose(xml[c])}
        last == IF closes = {} THEN 0
                ELSE CHOOSE c \in closes : \A d \in closes : d <= c
        opens == {o \in (last + 1) .. (p - 1) : StartsWithOpen(xml[o])}
    IN  IF opens = {} THEN <<>>
        ELSE SubSeq(xml, CHOOSE o \in opens : \A q \in opens : o <= q, p - 1)

\* The fragments the close lines among the first p lines end, in stream
\* order: each the open entry before the close line, and the close line.
FragmentsUpTo(p) ==
    LET ends == {c \in 1 .. p :
                    StartsWithClose(xml[c]) /\ ExpectedBuffer(c) # <<>>}
        Nth[n \in 1 .. Cardinality(ends)] ==
            CHOOSE c \in ends : Cardinality({d \in ends : d < c}) = n - 1
    IN  [n \in 1 .. Cardinality(ends) |->
            Append(ExpectedBuffer(Nth[n]), xml[Nth[n]])]

RECURSIVE EntriesOf(_)
\* Everything process_entry yields for the fragments cs, in order.
EntriesOf(cs) ==
    IF cs = <<>> THEN <<>>
    ELSE process_entry(Head(cs), assertions).entries \o EntriesOf(Tail(cs))

\* C12: an open line that arrives while an entry is buffered is appended to
\* the buffer and starts no new one, so the fragment handed to process_entry
\* at a close line runs from the first open line after the previous close
\* line (two opens and one close are one fragment); an entry still open when
\* the lines end is dropped silently: the generator returns with no error and
\* with nothing emitted beyond the entries of the fragments handed over; and
\* the fragments handed over never outnumber the close lines seen.
C12_NestedOpenAppendedOpenEndDropped ==
    /\ scan_pc \in {"loop", "done"} => log_entry = ExpectedBuffer(pos)
    /\ calls = FragmentsUpTo(SeenUpTo)
    /\ \A n \in 1 .. Len(calls) :
          /\ StartsWithOpen(calls[n][1])
          /\ StartsWithClose(calls[n][Len(calls[n])])
          /\ \A k \in 1 .. (Len(calls[n]) - 1) : ~StartsWithClose(calls[n][k])
    /\ scan_pc = "done" =>
          /\ scan_err = None
          /\ emitted = EntriesOf(calls)
    /\ Len(calls) <= CloseLinesSeen

\* C12's case: after one entry is handed over at its close line, an open
\* line is followed by a second open line and a date line, and the lines end:
\* both open lines are in the one buffer, which is dropped without error or
\* row, and the one fragment handed over matches the one close line seen.
C12_Witness ==
    /\ scan_pc = "done"
    /\ xml = <<OpenLine1, CloseLine, OpenLine1, OpenLine2, DateLine>>
    /\ calls = <<<<OpenLine1, CloseLine>>>>
    /\ log_entry = <<OpenLine1, OpenLine2, DateLine>>
    /\ emitted = <<>>
    /\ scan_err = None

=============================================================================
